---- MODULE Spec2Model ----
(***************************************************************************)
(* Argon One Pi Controller (src/main.go): the Supervisor (Service.Manage)  *)
(* and the three goroutines it starts -- monitorTemperature (Temperature   *)
(* Poller), handleTemperature (Fan Controller) and watchShutdownButton     *)
(* (Button Watcher) -- with the channels and the context that couple them. *)
(*                                                                         *)
(* Each action is the code a goroutine runs between two points where it    *)
(* can block or be observed by another goroutine: a channel operation, a   *)
(* select, a sleep, a call of an external command or of the bus.           *)
(* Durations are counted in ticks of 0.1 s.                                *)
(*                                                                         *)
(* The history variables record what the program did; no action reads     *)
(* them but for the bound on the reads.  Spec and FairSpec are the program *)
(* alone: no history is kept but the count of high polls, which pulseTime  *)
(* determines, and the Temperature Source is read without bound.           *)
(* TraceSpec keeps the histories, in runs of MaxReads reads with the       *)
(* button held for at most MaxHold polls, and in runs of FewReads reads    *)
(* with the button held for up to MaxTicks - 1 polls; FairTraceSpec is     *)
(* TraceSpec under the fairness of FairSpec.                               *)
(***************************************************************************)
EXTENDS Integers, Sequences, FiniteSets, TLC

(* ------------------------------ bounds -------------------------------- *)

\* pulseTime grows to at most MaxTicks ticks: the pin reads high on at most
\* MaxTicks - 1 consecutive polls.
MaxTicks == 41
\* Runs that keep the histories: the Temperature Source is invoked at most
\* MaxReads times while pulseTime grows to at most MaxHold ticks, or at most
\* FewReads times while pulseTime grows to at most MaxTicks ticks.
MaxReads == 3
MaxHold == 3
FewReads == 1

(* ----------------------- constants of the program --------------------- *)

\* smbusFanAddress, 0x1a
smbusFanAddress == 26
\* the speed handleTemperature writes
FanSpeedFull == 100
\* handleTemperature: temp > 50
FanThreshold == 50
\* cap of tempChannel and of errChannel, and of osInterrupt
ChanCap == 1

\* Temperatures the source can report, in degrees Celsius.
Temps == {30, 40, 50, 55}
\* Signals signal.Notify forwards to osInterrupt (os.Kill cannot be caught).
Signals == {"interrupt", "terminated"}

NoErr == "nil"
GpioErr == "gpio open error"
BusErr == "smbus open error"
TempErr == "temperature read error"
PinErr == "pin open error"
RebootErr == "reboot error"
ShutdownErr == "shutdown error"
WorkerErrs == {TempErr, PinErr, RebootErr, ShutdownErr}

NoResult == [status |-> "", err |-> NoErr]

VARIABLES
    pcS,          \* Manage: "openGpio", "openBus", "select", "returned"
    result,       \* what Manage returned: [status, err]
    cancelled,    \* appCtx is done
    osInterrupt,  \* chan os.Signal, capacity 1
    tempChannel,  \* chan float64, capacity 1
    errChannel,   \* chan error, capacity 1
    pcP,          \* monitorTemperature: "idle", "loop", "send", "sendErr", "sleep", "stopped", "failed"
    temp,         \* monitorTemperature's temp, while it is being sent
    pcF,          \* handleTemperature: "idle", "select", "write", "stopped"
    pcB,          \* watchShutdownButton: "idle", "open", "sendOpenErr", "failed", "loop", "stopped",
                  \*   "arm", "poll", "reboot", "sendRebootErr", "shutdown", "sendShutdownErr"
    pulseTime,    \* watchShutdownButton's pulseTime, in ticks; 0 outside the loop body
    highs,        \* history: polls of this outer iteration that read the pin high
    recording,    \* whether this run keeps the histories below
    limits,       \* what the environment does at most in this run: [reads, ticks]
    reads,        \* history: number of invocations of getCurrentTemperature
    readVals,     \* history: the values getCurrentTemperature returned with no error
    sent,         \* history: readings sent on tempChannel
    received,     \* history: readings handleTemperature received
    fanCmds,      \* history: block writes issued to the bus
    fanSpeed,     \* history: the speed the fan device last accepted
    acts,         \* history: power actions invoked in the current outer iteration
    errSends,     \* history: errors sent on errChannel, in order
    atCancel      \* history: what had been read and sent when the token was set

vars == <<pcS, result, cancelled, osInterrupt, tempChannel, errChannel,
          pcP, temp, pcF, pcB, pulseTime, highs, recording, limits,
          reads, readVals, sent, received, fanCmds, fanSpeed, acts, errSends,
          atCancel>>

supVars == <<pcS, result, cancelled, osInterrupt, atCancel>>
pollerVars == <<pcP, temp, reads, readVals, sent>>
fanVars == <<pcF, fanSpeed, received, fanCmds>>
buttonVars == <<pcB, pulseTime, highs, acts>>
runVars == <<recording, limits>>

(* ------------------------------ helpers ------------------------------- *)

\* A history h with x added, in a run that keeps histories.
Log(h, x) == IF recording THEN Append(h, x) ELSE h

\* CanSend of a channel with one slot less: no buffer.
CanSendNoBuffer(ch) == Len(ch) < ChanCap - 1

\* A buffered channel accepts a send without blocking while it is not full.
CanSend(ch) == Len(ch) < ChanCap
\* A receive is ready while the buffer holds a value.
CanRecv(ch) == Len(ch) > 0

\* PutUint32 in big-endian byte order.
PutUint32BigEndian(v) ==
    << (v \div 16777216) % 256, (v \div 65536) % 256, (v \div 256) % 256, v % 256 >>

\* binary.LittleEndian.PutUint32(b, v)
PutUint32(v) ==
    << v % 256, (v \div 256) % 256, (v \div 65536) % 256, (v \div 16777216) % 256 >>
\* the value a device decodes from the four bytes
Uint32(b) == b[1] + 256 * b[2] + 65536 * b[3] + 16777216 * b[4]

\* bus.Write_block_data(smbusFanAddress, fanSpeedBytes)
FanCommand(speed) == [cmd |-> smbusFanAddress, data |-> PutUint32(speed)]

\* A text is a sequence of tokens [kind, val]: the literals "temp=", "'C" and
\* "\n" (val 0), and "num", a decimal number of value val.
Lit(k) == [kind |-> k, val |-> 0]
Num(t) == [kind |-> "num", val |-> t]

\* strings.Replace(s, old, "", 1): the first occurrence of old is removed.
RECURSIVE RemoveFirst(_, _)
RemoveFirst(s, old) ==
    IF s = <<>> THEN <<>>
    ELSE IF Head(s).kind = old THEN Tail(s)
    ELSE <<Head(s)>> \o RemoveFirst(Tail(s), old)

\* What vcgencmd measure_temp can do: fail, or leave a text on stdout:
\* the pattern, the pattern followed by a newline, or nothing.
CmdOutputs ==
    {[ok |-> FALSE, out |-> <<>>]}
    \cup {[ok |-> TRUE, out |-> <<Lit("temp="), Num(t), Lit("'C")>>] : t \in Temps}
    \cup {[ok |-> TRUE, out |-> <<Lit("temp="), Num(t), Lit("'C"), Lit("\n")>>] : t \in Temps}
    \cup {[ok |-> TRUE, out |-> <<>>]}

\* getCurrentTemperature: the parsed value, or an error.
\* strconv.ParseFloat accepts the text only if it is a number and nothing else.
getCurrentTemperature(c) ==
    IF ~c.ok THEN [err |-> TempErr, val |-> 0]
    ELSE LET s == RemoveFirst(RemoveFirst(c.out, "temp="), "'C")
         IN IF Len(s) = 1 /\ s[1].kind = "num"
            THEN [err |-> NoErr, val |-> s[1].val]
            ELSE [err |-> TempErr, val |-> 0]

(* pulseTime is a float64 that starts at 0.1 and grows by 0.1 per poll that
   reads high; after n - 1 additions it holds the float64 sum of n terms 0.1.
   That sum is 2.0000000000000004 for n = 20, 2.9000000000000012 for n = 29,
   3.0000000000000013 for n = 30, 3.900000000000002 for n = 39 and
   4.000000000000002 for n = 40, and it grows with n.  The comparisons of
   the code on the float64 are therefore these comparisons on n. *)
TicksGE2 == 20
TicksLE3 == 29
TicksGE4 == 40
PulseGE2(n) == n >= TicksGE2
PulseLE3(n) == n <= TicksLE3
PulseGE4(n) == n >= TicksGE4

\* RebootCond with && for ||.
RebootCondBoth(n) == PulseGE2(n) /\ PulseLE3(n)
\* ShutdownCond with > for >=.
ShutdownCondAbove(n) == n > TicksGE4

\* RebootCond for presses of at least 2 s only.
RebootCondPressed(n) == PulseGE2(n)

\* if pulseTime >= 2 || pulseTime <= 3
RebootCond(n) == PulseGE2(n) \/ PulseLE3(n)
\* if pulseTime >= 4
ShutdownCond(n) == PulseGE4(n)

\* main: the exit status of the process for what Manage returned
ExitStatus(r) == IF r.err # NoErr THEN 1 ELSE 0


(* ------------------------------- Init --------------------------------- *)

NotCancelled == [reads |-> 0, sent |-> 0]

\* The process has been started with no subcommand: Manage is about to open
\* the pin driver, no channel exists yet and no goroutine runs.
Start ==
    /\ pcS = "openGpio"
    /\ result = NoResult
    /\ cancelled = FALSE
    /\ osInterrupt = <<>>
    /\ tempChannel = <<>>
    /\ errChannel = <<>>
    /\ pcP = "idle"
    /\ temp = 0
    /\ pcF = "idle"
    /\ pcB = "idle"
    /\ pulseTime = 0
    /\ highs = 0
    /\ reads = 0
    /\ readVals = <<>>
    /\ sent = <<>>
    /\ received = <<>>
    /\ fanCmds = <<>>
    /\ fanSpeed = 0
    /\ acts = <<>>
    /\ errSends = <<>>
    /\ atCancel = NotCancelled

Init ==
    /\ Start
    /\ recording = FALSE
    /\ limits = [reads |-> 0, ticks |-> MaxTicks]

InitTrace ==
    /\ Start
    /\ recording = TRUE
    /\ limits \in {[reads |-> MaxReads, ticks |-> MaxHold],
                   [reads |-> FewReads, ticks |-> MaxTicks]}

(* ----------------------------- Supervisor ----------------------------- *)

\* err := rpio.Open()
SupOpenGpio ==
    /\ pcS = "openGpio"
    /\ \E ok \in BOOLEAN :
         IF ok
         THEN pcS' = "openBus" /\ UNCHANGED result
         ELSE pcS' = "returned"
              /\ result' = [status |-> "failed opening gpio", err |-> GpioErr]
    /\ UNCHANGED <<cancelled, osInterrupt, atCancel, tempChannel, errChannel>>
    /\ UNCHANGED <<pollerVars, fanVars, buttonVars, errSends, runVars>>

\* SupOpenBus with the three go statements before the check of the error.
SupOpenBusStartsFirst ==
    /\ pcS = "openBus"
    /\ \E ok \in BOOLEAN :
         IF ok
         THEN pcS' = "select" /\ UNCHANGED result
         ELSE pcS' = "returned"
              /\ result' = [status |-> "failed opening smbus", err |-> BusErr]
    /\ pcP' = "loop"
    /\ pcF' = "select"
    /\ pcB' = "open"
    /\ UNCHANGED <<cancelled, osInterrupt, atCancel, tempChannel, errChannel>>
    /\ UNCHANGED <<temp, reads, readVals, sent, fanSpeed, received, fanCmds,
                   pulseTime, highs, acts, errSends, runVars>>

\* smbus.New; on success the channels, the context and the three goroutines
SupOpenBus ==
    /\ pcS = "openBus"
    /\ \E ok \in BOOLEAN :
         IF ok
         THEN /\ pcS' = "select"
              /\ pcP' = "loop"
              /\ pcF' = "select"
              /\ pcB' = "open"
              /\ UNCHANGED result
         ELSE /\ pcS' = "returned"
              /\ result' = [status |-> "failed opening smbus", err |-> BusErr]
              /\ UNCHANGED <<pcP, pcF, pcB>>
    /\ UNCHANGED <<cancelled, osInterrupt, atCancel, tempChannel, errChannel>>
    /\ UNCHANGED <<temp, reads, readVals, sent, fanSpeed, received, fanCmds,
                   pulseTime, highs, acts, errSends, runVars>>

\* The OS delivers a signal: signal.Notify sends without blocking and drops
\* the signal when the buffer is full.  Nothing reads osInterrupt once
\* Manage has left its select.
Signal ==
    /\ pcS = "select"
    /\ CanSend(osInterrupt)
    /\ \E s \in Signals : osInterrupt' = Append(osInterrupt, s)
    /\ UNCHANGED <<pcS, result, cancelled, atCancel, tempChannel, errChannel>>
    /\ UNCHANGED <<pollerVars, fanVars, buttonVars, errSends, runVars>>

\* Cancel with the call of cancel() forgotten.
CancelForgotten ==
    /\ cancelled' = cancelled
    /\ atCancel' = atCancel

\* cancel()
Cancel ==
    /\ cancelled' = TRUE
    /\ atCancel' = IF recording THEN [reads |-> reads, sent |-> Len(sent)]
                   ELSE atCancel

\* case killSignal := <-osInterrupt
SupInterrupt ==
    /\ pcS = "select"
    /\ CanRecv(osInterrupt)
    /\ osInterrupt' = Tail(osInterrupt)
    /\ Cancel
    /\ result' = [status |-> "Process finished", err |-> NoErr]
    /\ pcS' = "returned"
    /\ UNCHANGED <<tempChannel, errChannel>>
    /\ UNCHANGED <<pollerVars, fanVars, buttonVars, errSends, runVars>>

\* SupFailure returning "failed" with a nil error.
SupFailureNilErr ==
    /\ pcS = "select"
    /\ CanRecv(errChannel)
    /\ errChannel' = Tail(errChannel)
    /\ Cancel
    /\ result' = [status |-> "failed", err |-> NoErr]
    /\ pcS' = "returned"
    /\ UNCHANGED <<tempChannel, osInterrupt>>
    /\ UNCHANGED <<pollerVars, fanVars, buttonVars, errSends, runVars>>

\* SupFailure in a loop: Manage keeps waiting after a FailureEvent.
SupFailureKeepWaiting ==
    /\ pcS = "select"
    /\ CanRecv(errChannel)
    /\ errChannel' = Tail(errChannel)
    /\ Cancel
    /\ result' = [status |-> "failed", err |-> Head(errChannel)]
    /\ pcS' = "select"
    /\ UNCHANGED <<tempChannel, osInterrupt>>
    /\ UNCHANGED <<pollerVars, fanVars, buttonVars, errSends, runVars>>

\* case err := <-errChannel
SupFailure ==
    /\ pcS = "select"
    /\ CanRecv(errChannel)
    /\ errChannel' = Tail(errChannel)
    /\ Cancel
    /\ result' = [status |-> "failed", err |-> Head(errChannel)]
    /\ pcS' = "returned"
    /\ UNCHANGED <<tempChannel, osInterrupt>>
    /\ UNCHANGED <<pollerVars, fanVars, buttonVars, errSends, runVars>>

(* ------------------------- Temperature Poller ------------------------- *)

\* case <-ctx.Done(): return
PollerStop ==
    /\ pcP = "loop"
    /\ cancelled
    /\ pcP' = "stopped"
    /\ UNCHANGED <<temp, reads, readVals, sent>>
    /\ UNCHANGED <<supVars, tempChannel, errChannel, fanVars, buttonVars,
                   errSends, runVars>>

\* PollerRead without the check of ctx.Done() before it.
PollerReadUnchecked ==
    /\ pcP = "loop"
    /\ recording => reads < limits.reads
    /\ reads' = IF recording THEN reads + 1 ELSE reads
    /\ \E c \in CmdOutputs :
         LET r == getCurrentTemperature(c)
         IN IF r.err # NoErr
            THEN pcP' = "sendErr" /\ temp' = 0 /\ UNCHANGED readVals
            ELSE pcP' = "send" /\ temp' = r.val
                 /\ readVals' = Log(readVals, r.val)
    /\ UNCHANGED sent
    /\ UNCHANGED <<supVars, tempChannel, errChannel, fanVars, buttonVars,
                   errSends, runVars>>

\* default: temp, err := getCurrentTemperature()
PollerRead ==
    /\ pcP = "loop"
    /\ ~cancelled
    /\ recording => reads < limits.reads
    /\ reads' = IF recording THEN reads + 1 ELSE reads
    /\ \E c \in CmdOutputs :
         LET r == getCurrentTemperature(c)
         IN IF r.err # NoErr
            THEN pcP' = "sendErr" /\ temp' = 0 /\ UNCHANGED readVals
            ELSE pcP' = "send" /\ temp' = r.val
                 /\ readVals' = Log(readVals, r.val)
    /\ UNCHANGED sent
    /\ UNCHANGED <<supVars, tempChannel, errChannel, fanVars, buttonVars,
                   errSends, runVars>>

\* PollerSendErr with the return after the send left out.
PollerSendErrResume ==
    /\ pcP = "sendErr"
    /\ CanSend(errChannel)
    /\ errChannel' = Append(errChannel, TempErr)
    /\ errSends' = Log(errSends, TempErr)
    /\ pcP' = "sleep"
    /\ UNCHANGED <<temp, reads, readVals, sent>>
    /\ UNCHANGED <<supVars, tempChannel, fanVars, buttonVars, runVars>>

\* errCh <- err; return
PollerSendErr ==
    /\ pcP = "sendErr"
    /\ CanSend(errChannel)
    /\ errChannel' = Append(errChannel, TempErr)
    /\ errSends' = Log(errSends, TempErr)
    /\ pcP' = "failed"
    /\ UNCHANGED <<temp, reads, readVals, sent>>
    /\ UNCHANGED <<supVars, tempChannel, fanVars, buttonVars, runVars>>

\* tempChannel <- temp
PollerSend ==
    /\ pcP = "send"
    /\ CanSend(tempChannel)
    /\ tempChannel' = Append(tempChannel, temp)
    /\ sent' = Log(sent, temp)
    /\ pcP' = "sleep"
    /\ temp' = 0
    /\ UNCHANGED <<reads, readVals>>
    /\ UNCHANGED <<supVars, errChannel, fanVars, buttonVars, errSends, runVars>>

\* time.Sleep(5 * time.Second) is over
PollerWake ==
    /\ pcP = "sleep"
    /\ pcP' = "loop"
    /\ UNCHANGED <<temp, reads, readVals, sent>>
    /\ UNCHANGED <<supVars, tempChannel, errChannel, fanVars, buttonVars,
                   errSends, runVars>>

(* --------------------------- Fan Controller --------------------------- *)

\* FanStop with the token looked at only when a reading has arrived.
FanStopOnReading ==
    /\ pcF = "select"
    /\ cancelled
    /\ CanRecv(tempChannel)
    /\ pcF' = "stopped"
    /\ UNCHANGED <<fanSpeed, received, fanCmds>>
    /\ UNCHANGED <<supVars, tempChannel, errChannel, pollerVars, buttonVars,
                   errSends, runVars>>

\* case <-ctx.Done(): return
FanStop ==
    /\ pcF = "select"
    /\ cancelled
    /\ pcF' = "stopped"
    /\ UNCHANGED <<fanSpeed, received, fanCmds>>
    /\ UNCHANGED <<supVars, tempChannel, errChannel, pollerVars, buttonVars,
                   errSends, runVars>>

\* TooHot with >= for >.
TooHotInclusive(t) == t >= FanThreshold

\* if temp > 50
TooHot(t) == t > FanThreshold

\* case temp := <-channel
FanReceive ==
    /\ pcF = "select"
    /\ CanRecv(tempChannel)
    /\ tempChannel' = Tail(tempChannel)
    /\ received' = Log(received, Head(tempChannel))
    /\ pcF' = IF TooHot(Head(tempChannel)) THEN "write" ELSE "select"
    /\ UNCHANGED <<fanSpeed, fanCmds>>
    /\ UNCHANGED <<supVars, errChannel, pollerVars, buttonVars, errSends, runVars>>

\* FanWrite that returns from handleTemperature when the write fails.
FanWriteFailStops ==
    /\ pcF = "write"
    /\ fanCmds' = Log(fanCmds, FanCommand(FanSpeedFull))
    /\ \E ok \in BOOLEAN :
         IF ok
         THEN /\ fanSpeed' = IF recording
                             THEN Uint32(FanCommand(FanSpeedFull).data)
                             ELSE fanSpeed
              /\ pcF' = "select"
         ELSE UNCHANGED fanSpeed /\ pcF' = "stopped"
    /\ UNCHANGED received
    /\ UNCHANGED <<supVars, tempChannel, errChannel, pollerVars, buttonVars,
                   errSends, runVars>>

\* bus.Write_block_data(smbusFanAddress, fanSpeedBytes); its error is dropped
FanWrite ==
    /\ pcF = "write"
    /\ fanCmds' = Log(fanCmds, FanCommand(FanSpeedFull))
    /\ \E ok \in BOOLEAN :
         fanSpeed' = IF ok /\ recording
                     THEN Uint32(FanCommand(FanSpeedFull).data)
                     ELSE fanSpeed
    /\ pcF' = "select"
    /\ UNCHANGED received
    /\ UNCHANGED <<supVars, tempChannel, errChannel, pollerVars, buttonVars,
                   errSends, runVars>>

(* --------------------------- Button Watcher --------------------------- *)

\* err := rpio.Open(); PinMode, PullMode
ButtonOpen ==
    /\ pcB = "open"
    /\ \E ok \in BOOLEAN : pcB' = IF ok THEN "loop" ELSE "sendOpenErr"
    /\ UNCHANGED <<pulseTime, highs, acts>>
    /\ UNCHANGED <<supVars, tempChannel, errChannel, pollerVars, fanVars,
                   errSends, runVars>>

\* errCh <- err; return
ButtonSendOpenErr ==
    /\ pcB = "sendOpenErr"
    /\ CanSend(errChannel)
    /\ errChannel' = Append(errChannel, PinErr)
    /\ errSends' = Log(errSends, PinErr)
    /\ pcB' = "failed"
    /\ UNCHANGED <<pulseTime, highs, acts>>
    /\ UNCHANGED <<supVars, tempChannel, pollerVars, fanVars, runVars>>

\* case <-ctx.Done(): return
ButtonStop ==
    /\ pcB = "loop"
    /\ cancelled
    /\ pcB' = "stopped"
    /\ UNCHANGED <<pulseTime, highs, acts>>
    /\ UNCHANGED <<supVars, tempChannel, errChannel, pollerVars, fanVars,
                   errSends, runVars>>

\* ButtonEnter with the accumulator starting at nothing.
ButtonEnterFromZero ==
    /\ pcB = "loop"
    /\ ~cancelled
    /\ pulseTime' = 0
    /\ highs' = 0
    /\ acts' = <<>>
    /\ pcB' = "arm"
    /\ UNCHANGED <<supVars, tempChannel, errChannel, pollerVars, fanVars,
                   errSends, runVars>>

\* default: sleepTime, tick; var pulseTime = tick
ButtonEnter ==
    /\ pcB = "loop"
    /\ ~cancelled
    /\ pulseTime' = 1
    /\ highs' = 0
    /\ acts' = <<>>
    /\ pcB' = "arm"
    /\ UNCHANGED <<supVars, tempChannel, errChannel, pollerVars, fanVars,
                   errSends, runVars>>

\* shutdownPin.Detect(rpio.RiseEdge); time.Sleep(sleepTime)
ButtonArm ==
    /\ pcB = "arm"
    /\ pcB' = "poll"
    /\ UNCHANGED <<pulseTime, highs, acts>>
    /\ UNCHANGED <<supVars, tempChannel, errChannel, pollerVars, fanVars,
                   errSends, runVars>>

\* for shutdownPin.Read() == rpio.High { Sleep(sleepTime); pulseTime += tick }
ButtonPollHigh ==
    /\ pcB = "poll"
    /\ pulseTime < limits.ticks
    /\ pulseTime' = pulseTime + 1
    /\ highs' = highs + 1
    /\ UNCHANGED <<pcB, acts>>
    /\ UNCHANGED <<supVars, tempChannel, errChannel, pollerVars, fanVars,
                   errSends, runVars>>

\* Where the watcher stands once the first if is behind it: in the body of
\* the second if, or at the top of the loop, pulseTime out of scope.
AfterReboot(n) ==
    IF ShutdownCond(n) THEN [pc |-> "shutdown", pulse |-> n]
    ELSE [pc |-> "loop", pulse |-> 0]

\* The polls counted for a pulseTime that is, or is no longer, in scope.
HighsKept(n) == IF n = 0 THEN 0 ELSE highs

\* shutdownPin.Read() is low: the loop ends and the first if is evaluated
ButtonPollLow ==
    /\ pcB = "poll"
    /\ LET to == IF RebootCond(pulseTime)
                 THEN [pc |-> "reboot", pulse |-> pulseTime]
                 ELSE AfterReboot(pulseTime)
       IN pcB' = to.pc /\ pulseTime' = to.pulse
    /\ highs' = HighsKept(pulseTime')
    /\ UNCHANGED acts
    /\ UNCHANGED <<supVars, tempChannel, errChannel, pollerVars, fanVars,
                   errSends, runVars>>

\* err := rebootCommand.Run().  The two exec.Cmd values are made once, before
\* the loop: Run may fail on any call (and does on a Cmd that has run).
ButtonReboot ==
    /\ pcB = "reboot"
    /\ acts' = Log(acts, "reboot")
    /\ \E ok \in BOOLEAN :
         IF ok
         THEN pcB' = AfterReboot(pulseTime).pc
              /\ pulseTime' = AfterReboot(pulseTime).pulse
         ELSE pcB' = "sendRebootErr" /\ UNCHANGED pulseTime
    /\ highs' = HighsKept(pulseTime')
    /\ UNCHANGED <<supVars, tempChannel, errChannel, pollerVars, fanVars,
                   errSends, runVars>>

\* ButtonSendRebootErr with a return after the send, as in the Poller.
ButtonSendRebootErrReturns ==
    /\ pcB = "sendRebootErr"
    /\ CanSend(errChannel)
    /\ errChannel' = Append(errChannel, RebootErr)
    /\ errSends' = Log(errSends, RebootErr)
    /\ pcB' = "failed"
    /\ pulseTime' = 0
    /\ highs' = 0
    /\ UNCHANGED acts
    /\ UNCHANGED <<supVars, tempChannel, pollerVars, fanVars, runVars>>

\* errCh <- err, then on to the second if
ButtonSendRebootErr ==
    /\ pcB = "sendRebootErr"
    /\ CanSend(errChannel)
    /\ errChannel' = Append(errChannel, RebootErr)
    /\ errSends' = Log(errSends, RebootErr)
    /\ pcB' = AfterReboot(pulseTime).pc
    /\ pulseTime' = AfterReboot(pulseTime).pulse
    /\ highs' = HighsKept(pulseTime')
    /\ UNCHANGED acts
    /\ UNCHANGED <<supVars, tempChannel, pollerVars, fanVars, runVars>>

\* err := shutdownCommand.Run()
ButtonShutdown ==
    /\ pcB = "shutdown"
    /\ acts' = Log(acts, "shutdown")
    /\ \E ok \in BOOLEAN :
         IF ok
         THEN pcB' = "loop" /\ pulseTime' = 0
         ELSE pcB' = "sendShutdownErr" /\ UNCHANGED pulseTime
    /\ highs' = HighsKept(pulseTime')
    /\ UNCHANGED <<supVars, tempChannel, errChannel, pollerVars, fanVars,
                   errSends, runVars>>

\* ButtonSendShutdownErr as a send that gives up when the channel is full.
ButtonSendShutdownErrOrDrop ==
    /\ pcB = "sendShutdownErr"
    /\ IF CanSend(errChannel)
       THEN /\ errChannel' = Append(errChannel, ShutdownErr)
            /\ errSends' = Log(errSends, ShutdownErr)
       ELSE UNCHANGED <<errChannel, errSends>>
    /\ pcB' = "loop"
    /\ pulseTime' = 0
    /\ highs' = 0
    /\ UNCHANGED acts
    /\ UNCHANGED <<supVars, tempChannel, pollerVars, fanVars, runVars>>

\* errCh <- err, then back to the top of the loop
ButtonSendShutdownErr ==
    /\ pcB = "sendShutdownErr"
    /\ CanSend(errChannel)
    /\ errChannel' = Append(errChannel, ShutdownErr)
    /\ errSends' = Log(errSends, ShutdownErr)
    /\ pcB' = "loop"
    /\ pulseTime' = 0
    /\ highs' = 0
    /\ UNCHANGED acts
    /\ UNCHANGED <<supVars, tempChannel, pollerVars, fanVars, runVars>>

(* --------------------------- specification ---------------------------- *)

Supervisor == SupOpenGpio \/ SupOpenBus \/ SupInterrupt \/ SupFailure
Poller == PollerStop \/ PollerRead \/ PollerSendErr \/ PollerSend \/ PollerWake
Fan == FanStop \/ FanReceive \/ FanWrite
Button ==
    \/ ButtonOpen \/ ButtonSendOpenErr \/ ButtonStop \/ ButtonEnter \/ ButtonArm
    \/ ButtonPollHigh \/ ButtonPollLow \/ ButtonReboot \/ ButtonSendRebootErr
    \/ ButtonShutdown \/ ButtonSendShutdownErr

Next == Signal \/ Supervisor \/ Poller \/ Fan \/ Button

Spec == Init /\ [][Next]_vars

\* The Go scheduler runs every goroutine that can take a step, the external
\* commands and the bus return, and a pressed button is released: each of
\* the four goroutines keeps taking steps while it has one.  Nothing is
\* assumed of the arrival of signals.
Fairness ==
    /\ WF_vars(Supervisor)
    /\ WF_vars(Poller)
    /\ WF_vars(Fan)
    /\ WF_vars(Button)

FairSpec == Init /\ [][Next]_vars /\ Fairness

TraceSpec == InitTrace /\ [][Next]_vars

FairTraceSpec == InitTrace /\ [][Next]_vars /\ Fairness

(* ------------------------------ claims -------------------------------- *)

\* The step in which Manage leaves its select and returns.
ManageLeavesSelect == pcS = "select" /\ pcS' = "returned"
\* That step received from osInterrupt and left errChannel alone.
TookInterrupt ==
    /\ CanRecv(osInterrupt)
    /\ osInterrupt' = Tail(osInterrupt)
    /\ errChannel' = errChannel
\* That step received from errChannel and left osInterrupt alone.
TookFailure ==
    /\ CanRecv(errChannel)
    /\ errChannel' = Tail(errChannel)
    /\ osInterrupt' = osInterrupt

\* C1: when Manage leaves its select it has taken exactly one of the two
\* branches and the token is set; it returns "Process finished" with no
\* error (exit status 0) exactly when it took the interrupt branch, and
\* "failed" with the very error it received from errChannel (exit status 1)
\* exactly when it took the FailureEvent branch.
C1_ManageOutcome ==
    [][ManageLeavesSelect =>
          /\ cancelled'
          /\ TookInterrupt # TookFailure
          /\ TookInterrupt <=>
                /\ result' = [status |-> "Process finished", err |-> NoErr]
                /\ ExitStatus(result') = 0
          /\ TookFailure <=>
                /\ result'.status = "failed"
                /\ result'.err # NoErr
                /\ CanRecv(errChannel) /\ result'.err = Head(errChannel)
                /\ ExitStatus(result') = 1
       ]_vars

\* C1 witness: Manage has returned a worker's error while a signal was
\* waiting in osInterrupt as well.
C1_Witness ==
    /\ pcS = "returned"
    /\ cancelled
    /\ result = [status |-> "failed", err |-> RebootErr]
    /\ osInterrupt # <<>>

\* A worker has a FailureEvent for the Supervisor: it is at its send on
\* errChannel, or the error is in the channel.
FailureEmitted ==
    \/ errChannel # <<>>
    \/ pcP = "sendErr"
    \/ pcB \in {"sendOpenErr", "sendRebootErr", "sendShutdownErr"}

\* C2: under fair scheduling, whenever a worker emits a FailureEvent while
\* Manage waits in its select, Manage eventually sets the token and returns.
C2_FailureReachesSupervisor ==
    (pcS = "select" /\ FailureEmitted) ~> (pcS = "returned" /\ cancelled)

\* C2 witness: Manage has returned the error of a failed power-off.
C2_Witness ==
    /\ pcS = "returned"
    /\ cancelled
    /\ result = [status |-> "failed", err |-> ShutdownErr]

\* The speed a command written to the bus carries.
SpeedOf(c) == Uint32(c.data)
\* How many of the readings in s are strictly greater than 50.
Above50(s) == Cardinality({i \in 1..Len(s) : s[i] > 50})
\* How many of the commands in s carry speed 100.
Speed100(s) == Cardinality({i \in 1..Len(s) : SpeedOf(s[i]) = 100})

\* C3: the speed-100 commands issued are as many as the readings received
\* that are strictly greater than 50, the one whose write is under way
\* counted: a write is under way only on receipt of such a reading, and a
\* reading of 50 or less, 50 included, is followed by no command.
C3_OneCommandPerHotReading ==
    /\ Speed100(fanCmds) + (IF pcF = "write" THEN 1 ELSE 0) = Above50(received)
    /\ pcF = "write" => received # <<>> /\ received[Len(received)] > 50

\* C3 witness: the readings 30, 55, 40 have been received and exactly one
\* command has been issued; it was issued before the third reading came.
C3_Witness ==
    /\ received = <<30, 55, 40>>
    /\ Len(fanCmds) = 1
    /\ SpeedOf(fanCmds[1]) = 100
    /\ pcF = "select"

\* C4: every command ever written to the Fan Actuator carries speed 100,
\* so that the device holds its initial speed or 100: no lower-speed or
\* stop command is issued, whatever readings follow a reading above 50.
C4_RaiseOnly ==
    /\ \A i \in 1..Len(fanCmds) : SpeedOf(fanCmds[i]) = 100
    /\ fanSpeed \in {0, 100}
    /\ fanSpeed = 100 => fanCmds # <<>>

\* C4 witness: a reading above 50 was followed by readings at and below 50,
\* and the only command written is the speed-100 one.
C4_Witness ==
    /\ received = <<55, 50, 30>>
    /\ Len(fanCmds) = 1
    /\ fanSpeed = 100
    /\ pcF = "select"

\* The step that ends an outer iteration of the Button Watcher: the pin has
\* read low and the watcher is back at the top of its loop.
IterationEnds ==
    /\ pcB \in {"poll", "reboot", "sendRebootErr", "shutdown", "sendShutdownErr"}
    /\ pcB' = "loop"
\* The step that invokes the power action a.
Invokes(a) == acts' # acts /\ acts' = Append(acts, a)

\* C5, order and threshold: an outer iteration whose accumulated duration is
\* at least 40 ticks (4 s) ends only with the reboot action invoked first and the power-off
\* action invoked after it; the power-off action is invoked only at 40 ticks
\* or more, and only after the reboot action of the same iteration.
C5_LongPressRebootThenPowerOff ==
    [][/\ (IterationEnds /\ pulseTime >= 40) => acts' = <<"reboot", "shutdown">>
       /\ Invokes("shutdown") => pulseTime >= 40 /\ acts = <<"reboot">>
       /\ Invokes("reboot") => acts = <<>>
      ]_vars

\* C5, order and threshold: a press of exactly 40 ticks; reboot, then power-off, invoked.
C5_Witness ==
    /\ pcB = "sendShutdownErr"
    /\ pulseTime = 40
    /\ acts = <<"reboot", "shutdown">>

\* C5: a press of at least 40 ticks (4 s) for which the reboot action is
\* about to be invoked is followed, in the same outer iteration, by the
\* invocation of the power-off action.
C5_LongPressReachesPowerOff ==
    (pcB = "reboot" /\ PulseGE4(pulseTime)) ~> (pcB = "shutdown")

\* C5: a press of at least 40 ticks whose reboot action failed, the Button
\* Watcher at its send on the full error channel after Manage has returned:
\* the power-off invocation lies behind a send nobody will unblock.
C5_BlockedBeforePowerOff ==
    /\ pcB = "sendRebootErr"
    /\ PulseGE4(pulseTime)
    /\ ~CanSend(errChannel)
    /\ pcS = "returned"

\* C6: an outer iteration whose accumulated duration is at least 20 ticks
\* (2 s) and below 40 ticks (4 s), the press of 25 polls (26 ticks) among
\* them, ends with the reboot action invoked exactly once and the power-off
\* action not invoked.
C6_ShortPressRebootOnly ==
    [][/\ (IterationEnds /\ pulseTime >= 20 /\ pulseTime < 40) => acts' = <<"reboot">>
       /\ (pcB' \in {"shutdown", "sendShutdownErr"}) => ~(pulseTime' >= 20 /\ pulseTime' < 40)
      ]_vars

\* C6 witness: the pin read high on 25 polls, pulseTime is 26 ticks, and the
\* reboot action has been invoked, once.
C6_Witness ==
    /\ pcB = "sendRebootErr"
    /\ pulseTime = 26
    /\ acts = <<"reboot">>

C8_PollerStops == cancelled ~> (pcP \in {"stopped", "failed"})

\* C8: the Fan Controller has stopped, a reading sits in the reading channel
\* and the Temperature Poller is at its send of the next reading.
C8_BlockedOnReading ==
    /\ cancelled
    /\ pcF = "stopped"
    /\ pcP = "send"
    /\ ~CanSend(tempChannel)

\* C9: under fair scheduling, once the token is set the Button Watcher
\* eventually has returned.
C9_ButtonStops == cancelled ~> (pcB \in {"stopped", "failed"})

\* C9: Manage has returned, another worker's FailureEvent fills the error
\* channel and the Button Watcher is at its send of a power-action failure.
C9_BlockedOnError ==
    /\ pcS = "returned"
    /\ pcB \in {"sendRebootErr", "sendShutdownErr"}
    /\ ~CanSend(errChannel)

\* C10: under fair scheduling, once the token is set the Fan Controller
\* eventually is Stopped, whatever is left in the reading channel, and it is
\* never in a state other than not started, Running (in its select or in
\* the bus write) and Stopped.
C10_FanStops ==
    /\ cancelled ~> (pcF = "stopped")
    /\ [](pcF \in {"idle", "select", "write", "stopped"})
    /\ [](pcF = "idle" <=> pcS \in {"openGpio", "openBus"} \/ result.err \in {GpioErr, BusErr})

\* C10 witness: the Fan Controller has stopped with a reading left in the
\* reading channel.
C10_Witness ==
    /\ cancelled
    /\ pcF = "stopped"
    /\ tempChannel # <<>>

\* The reading the Temperature Poller has read and not yet sent.
PendingReading == IF pcP = "send" THEN <<temp>> ELSE <<>>
\* The Temperature Source has failed and the Poller is past that read.
PollerFailing == pcP \in {"sendErr", "failed"}

\* C11: the readings sent are the values the Temperature Source returned, in
\* the order read, the last one pending only while the Poller is at its send,
\* and they are the readings the Fan Controller received followed by what
\* the reading channel holds; a failure at the k-th invocation leaves k - 1
\* readings sent, after which the Poller neither reads nor sends again and
\* returns only with its error sent on the error channel; while the token is
\* not set a reading at the send is sent and an error at the send is
\* emitted.
C11_ReadingsForwardedInOrder ==
    /\ [](readVals = sent \o PendingReading)
    /\ [](sent = received \o tempChannel)
    /\ [](reads = Len(readVals) + (IF PollerFailing THEN 1 ELSE 0))
    /\ [](PollerFailing => Len(sent) = reads - 1)
    /\ [](pcP = "failed" => \E i \in 1..Len(errSends) : errSends[i] = TempErr)
    /\ [][PollerFailing => PollerFailing' /\ reads' = reads /\ sent' = sent]_vars
    /\ (pcP = "send") ~> (pcP = "sleep" \/ cancelled)
    /\ (pcP = "sendErr") ~> (pcP = "failed" \/ cancelled)

\* C11 witness: two reads succeeded and were sent and received in order, the
\* third failed and the Poller has returned, the token not set.
C11_Witness ==
    /\ ~cancelled
    /\ pcP = "failed"
    /\ reads = 3
    /\ readVals = <<55, 30>>
    /\ sent = <<55, 30>>
    /\ received = <<55, 30>>

\* The step in which the pin reads low and the polling loop is left.
PinReadsLow == pcB = "poll" /\ pcB' # "poll"

\* C12: whatever the accumulated duration, one tick with no press included,
\* the step in which the pin reads low leads to the reboot invocation, the
\* next step of the watcher invokes the reboot action, no iteration ends
\* without it, and under fair scheduling an iteration that polls the pin
\* invokes it.
C12_RebootOnEveryIteration ==
    /\ [](\A n \in 1..MaxTicks : RebootCond(n))
    /\ [][PinReadsLow => pcB' = "reboot" /\ pulseTime' = pulseTime]_vars
    /\ [][pcB = "reboot" /\ pcB' # "reboot" => Invokes("reboot")]_vars
    /\ [][IterationEnds => acts' # <<>> /\ acts'[1] = "reboot"]_vars
    /\ (pcB = "poll") ~> (acts # <<>> /\ acts[1] = "reboot")

\* C12 witness: the pin read low on the first poll, pulseTime is one tick,
\* and the reboot action has been invoked.
C12_Witness ==
    /\ pcB = "sendRebootErr"
    /\ pulseTime = 1
    /\ acts = <<"reboot">>

\* A step that takes an error out of the error channel.
ErrReceived == Len(errChannel') < Len(errChannel)
\* The number of errors taken out of the error channel so far.
ErrsReceived == Len(errSends) - Len(errChannel)

\* C13: an error leaves the error channel only in the step in which Manage
\* leaves its select by the failure branch, with that error as its outcome;
\* the token is set only in the step in which Manage leaves its select; once
\* Manage has returned its outcome and the token never change, whatever is
\* sent on the error channel afterwards; so at most one error is ever
\* received, and one is received exactly when the outcome is a failure of
\* a worker.
C13_OneFailureActedUpon ==
    /\ [][ErrReceived => ManageLeavesSelect /\ TookFailure]_vars
    /\ [][cancelled' # cancelled => ~cancelled /\ ManageLeavesSelect]_vars
    /\ [][pcS = "returned" => pcS' = "returned" /\ result' = result
                                /\ cancelled' = cancelled]_vars
    /\ [](ErrsReceived \in {0, 1})
    /\ [](ErrsReceived = 1 <=> result.err \in WorkerErrs)
    /\ [](ErrsReceived = 1 => result.err = errSends[1])

\* C13 witness: Manage has returned the Poller's failure and a later
\* FailureEvent of the Button Watcher sits in the error channel.
C13_Witness ==
    /\ pcS = "returned"
    /\ result = [status |-> "failed", err |-> TempErr]
    /\ errSends = <<TempErr, RebootErr>>
    /\ errChannel = <<RebootErr>>

\* The Temperature Poller is at its send and the reading channel is full.
PollerBlocked == pcP = "send" /\ ~CanSend(tempChannel)

\* C14: in no reachable state is the Temperature Poller blocked on its send
\* to the reading channel.
C14_PollerNeverBlocked == ~PollerBlocked

\* C14, amended: a send finds the Poller blocked only while the reading
\* channel holds a reading the Fan Controller has not taken: with the
\* channel empty the send is possible whatever the Fan Controller does (in
\* its bus write or stopped); and while the Fan Controller has not stopped
\* a blocked send ends or the Fan Controller stops.
C14_BlockedOnlyBehindUnreadReading ==
    /\ [](pcP = "send" /\ tempChannel = <<>> => ENABLED PollerSend)
    /\ [](PollerBlocked => Len(tempChannel) = ChanCap)
    /\ (PollerBlocked /\ pcF # "stopped") ~> (pcP # "send" \/ pcF = "stopped")

\* C14 witness: the Poller is at its send, the previous reading still in the
\* channel, while the Fan Controller's bus write is in flight.
C14_Witness ==
    /\ PollerBlocked
    /\ pcF = "write"

\* Manage returned because the pin driver or the fan bus could not be opened.
StartupFailed == result.err \in {GpioErr, BusErr}
\* No worker has been started and nothing a worker does has happened.
NoWorkerEverRan ==
    /\ pcP = "idle" /\ pcF = "idle" /\ pcB = "idle"
    /\ reads = 0 /\ readVals = <<>> /\ sent = <<>>
    /\ received = <<>> /\ fanCmds = <<>> /\ fanSpeed = 0
    /\ pulseTime = 0 /\ highs = 0 /\ acts = <<>>
    /\ errSends = <<>> /\ errChannel = <<>> /\ tempChannel = <<>>

\* C15: a failure to open the pin driver or the fan bus makes Manage return
\* "failed opening ..." with that error (exit status 1), and in every state
\* after it no worker has been started: no temperature read, no fan command,
\* no edge arming and no power action has occurred, and no step remains.
C15_StartupFailureStartsNothing ==
    /\ [][pcS = "openGpio" /\ pcS' = "returned"
           => result' = [status |-> "failed opening gpio", err |-> GpioErr]]_vars
    /\ [][pcS = "openBus" /\ pcS' = "returned"
           => result' = [status |-> "failed opening smbus", err |-> BusErr]]_vars
    /\ [](StartupFailed => pcS = "returned" /\ ExitStatus(result) = 1)
    /\ [](StartupFailed => NoWorkerEverRan)
    /\ [](StartupFailed => ~ENABLED Next)
    /\ [](pcS \in {"openGpio", "openBus"} => NoWorkerEverRan)

\* C15 witness: the pin driver opened, the fan bus did not, Manage returned.
C15_Witness ==
    /\ pcS = "returned"
    /\ result = [status |-> "failed opening smbus", err |-> BusErr]
    /\ NoWorkerEverRan

\* The step in which the bus write returns.
WriteReturns == pcF = "write" /\ pcF' # "write"
\* The step in which a bus write returns with the fan never having accepted
\* a speed: the write failed.
WriteFails == WriteReturns /\ fanSpeed' = 0

\* C16: the step in which a bus write fails records the attempt and takes
\* the Fan Controller back to its select, and changes nothing else: nothing
\* is sent on the error channel, the token and the outcome of Manage are
\* untouched; the Fan Controller is then ready for the next reading, and
\* under fair scheduling every write returns to the select.
C16_FailedWriteChangesNothingElse ==
    /\ [][WriteFails =>
             /\ pcF' = "select"
             /\ fanCmds' = Append(fanCmds, FanCommand(FanSpeedFull))
             /\ UNCHANGED <<supVars, tempChannel, errChannel, errSends,
                            pollerVars, buttonVars, received, fanSpeed>>]_vars
    /\ [][WriteReturns => pcF' = "select" /\ errChannel' = errChannel
                            /\ result' = result /\ cancelled' = cancelled]_vars
    /\ [](pcF = "select" /\ CanRecv(tempChannel) => ENABLED FanReceive)
    /\ (pcF = "write") ~> (pcF = "select")

\* C16 witness: the write for the reading 55 failed, the fan never took a
\* speed, and the Fan Controller went on to receive the reading 30; Manage
\* is still waiting and no error was sent.
C16_Witness ==
    /\ received = <<55, 30>>
    /\ Len(fanCmds) = 1
    /\ fanSpeed = 0
    /\ pcF = "select"
    /\ pcS = "select"
    /\ errSends = <<>>

\* The watcher is in an outer iteration whose pulseTime is in scope.
InIteration ==
    pcB \in {"arm", "poll", "reboot", "sendRebootErr", "shutdown", "sendShutdownErr"}
\* Edge detection has been re-armed in the current outer iteration.
Armed == pcB \in {"poll", "reboot", "sendRebootErr", "shutdown", "sendShutdownErr"}
\* The step that sets the accumulator to one tick.
Resets == pcB = "loop" /\ pcB' # "loop" /\ pcB' # "stopped"
\* The step that re-arms edge detection.
Arms == ~Armed /\ Armed'
\* The accumulator is one tick plus one tick per poll that read high, the
\* mere sum of the ticks of this iteration, and it is what is classified.
PulseIsOnePlusHighs ==
    /\ [](InIteration => pulseTime = 1 + highs)
    /\ [][Resets => pulseTime' = 1 /\ highs' = 0]_vars
    /\ [][PinReadsLow => pulseTime' = pulseTime /\ highs' = highs]_vars
    /\ [][PinReadsLow => (pcB' = "reboot" <=> RebootCond(1 + highs))]_vars
    /\ [][pcB' = "shutdown" => ShutdownCond(1 + highs')]_vars

RebootErrSent == pcB = "sendRebootErr" /\ pcB' # "sendRebootErr"
\* The step in which the send of the power-off error completes.
ShutdownErrSent == pcB = "sendShutdownErr" /\ pcB' # "sendShutdownErr"
\* A power action has failed and its error has been sent.
PowerErrEmitted ==
    \E i \in 1..Len(errSends) : errSends[i] \in {RebootErr, ShutdownErr}

PollerAtErrSend == pcP = "sendErr"
ButtonAtErrSend == pcB \in {"sendOpenErr", "sendRebootErr", "sendShutdownErr"}
\* Two sends on the error channel have completed.
TwoErrsSent == Len(errSends) = 2

\* C19: at most two sends on the error channel ever complete, at most one of
\* them received by Manage and at most one left in the channel, which never
\* holds more than one error; once two have completed Manage has returned,
\* the channel is full, and a worker at a send on it stays at that send in
\* every later step: its error is neither sent nor dropped and the worker
\* does not return.
C19_ThirdFailureBlocksForEver ==
    /\ [](Len(errSends) <= 2)
    /\ [](Len(errChannel) <= ChanCap)
    /\ [](ErrsReceived <= 1)
    /\ [](TwoErrsSent => pcS = "returned" /\ ErrsReceived = 1 /\ Len(errChannel) = 1)
    /\ [][TwoErrsSent /\ PollerAtErrSend => pcP' = pcP]_vars
    /\ [][TwoErrsSent /\ ButtonAtErrSend => pcB' = pcB]_vars
    /\ [][TwoErrsSent => errSends' = errSends /\ errChannel' = errChannel]_vars

\* C19 witness: the Poller's error was received by Manage, the reboot error
\* is in the channel, and the watcher is at its send of the power-off error.
C19_Witness ==
    /\ errSends = <<TempErr, RebootErr>>
    /\ errChannel = <<RebootErr>>
    /\ result.err = TempErr
    /\ pcB = "sendShutdownErr"

====
